---- MODULE Spec2Model ----
(***************************************************************************)
(* A model of 9dttt_bot.py: the tiered posting client (safe_post_tweet),   *)
(* the persisted mention processing (bot_respond with load_json_set and    *)
(* save_json_set), the event bridge (game_event, game_event_bridge,        *)
(* post_update), the scheduled posting jobs that share the tier flags, and *)
(* the interval scheduler that fires bot_broadcast and bot_respond.         *)
(*                                                                         *)
(* Texts are TLA+ strings, handled the way Python handles them: len is     *)
(* Len, text[:n] is Slice, "a in b" is Contains, f-strings are \o.  Every  *)
(* emoji and the one-character ellipsis of the source are written "*" and  *)
(* "~": one character each, as in Python's len.                            *)
(***************************************************************************)
EXTENDS Integers, Sequences, FiniteSets, TLC

\* ------------------------------------------------------------------ bounds
\* how far past the platform limit the longest text handed to the client is
MaxOver == 2
\* the mentions the account can be sent: ids 101 .. 100 + NMentions
NMentions == 2
\* the successful replies counted per mention (the counter saturates here)
MaxReplies == 2
\* the minutes the scheduler's clock runs for
MaxMinutes == 400

\* --------------------------------------------------------------- constants
TWITTER_CHAR_LIMIT == 280
GAME_LINK == "https://www.9dttt.com"
BOT_NAME == "9DTTT BOT"

\* ----------------------------------------------------------------- strings
Min(a, b) == IF a <= b THEN a ELSE b

\* Python's text[:n]
Slice(s, n) == IF n <= 0 THEN SubSeq(s, 1, 0) ELSE SubSeq(s, 1, Min(n, Len(s)))

\* Python's "sub in s"
Contains(s, sub) ==
    \E i \in 1..(Len(s) - Len(sub) + 1) : SubSeq(s, i, i + Len(sub) - 1) = sub

LowerChar(c) ==
    CASE c = "A" -> "a" [] c = "C" -> "c" [] c = "D" -> "d" [] c = "E" -> "e"
      [] c = "F" -> "f" [] c = "L" -> "l" [] c = "M" -> "m" [] c = "P" -> "p"
      [] c = "R" -> "r" [] c = "T" -> "t" [] c = "I" -> "i" [] c = "W" -> "w"
      [] OTHER -> c

\* Python's str.lower(), over the letters the model's texts use
RECURSIVE Lower(_)
Lower(s) ==
    IF Len(s) = 0 THEN s
    ELSE LowerChar(SubSeq(s, 1, 1)) \o Lower(SubSeq(s, 2, Len(s)))

\* a text of n characters
RECURSIVE Pad(_)
Pad(n) ==
    IF n <= 0 THEN ""
    ELSE IF n % 2 = 0 THEN LET h == Pad(n \div 2) IN h \o h
    ELSE "x" \o Pad(n - 1)

\* Python's str.replace(' ', '')
RECURSIVE StripSpaces(_)
StripSpaces(s) ==
    IF Len(s) = 0 THEN s
    ELSE (IF SubSeq(s, 1, 1) = " " THEN "" ELSE SubSeq(s, 1, 1))
             \o StripSpaces(SubSeq(s, 2, Len(s)))

VARIABLES
    PAID_TIER,      \* the Operating Tier: TRUE elevated, FALSE baseline
    USE_LLM,        \* the generative-text feature flag
    envPaid,        \* the PAID_TIER environment variable, read at start-up
    HUGGING_FACE_TOKEN, \* whether the environment supplies the token
    frame,          \* per caller: its running safe_post_tweet call
    replies,        \* per mention id: the reply posts that succeeded (history)
    \* ---- mention processing (bot_respond)
    inbox,          \* the account's mentions timeline, newest first
    file,           \* 9dttt_processed_mentions.json
    rpc,            \* where bot_respond is
    processed,      \* its local set
    batch,          \* mentions.data of this pass
    idx,            \* the loop's position in batch
    loaded,         \* the set this pass loaded (history)
    sent,           \* ids this pass called safe_post_tweet for (history)
    okIds,          \* ids whose reply post returned True this pass (history)
    failIds,        \* ids whose reply post returned False this pass (history)
    liked,          \* ids this pass liked (history)
    rend,           \* how the last pass ended; "none" while one runs
    lastBatch,      \* the batch the pass before this one fetched (history)
    rerun,          \* this pass fetched the batch the pass before it fetched
    llm,            \* the generative-text calls (history)
    \* ---- event bridge (game_event)
    epc,            \* where the request handler is
    ebody,          \* the body of the request being handled or last handled
    eposts,         \* the texts that request handed to safe_post_tweet (history)
    eresp,          \* the response to it
    \* ---- scheduled posting jobs
    jpc,            \* where the posting job is
    \* ---- scheduler
    sched           \* the clock, the interval jobs as added, and their runs

tierVars == <<PAID_TIER, USE_LLM, envPaid, HUGGING_FACE_TOKEN>>
passVars == <<rpc, processed, batch, idx, loaded, sent, okIds, failIds, liked,
              rend, lastBatch, rerun>>
mentionVars == <<inbox, file, passVars>>
eventVars == <<epc, ebody, eposts, eresp>>

\* the threads that call the posting client
Procs == {"caller", "respond", "event", "job"}

\* ---------------------------------------------------------- posting client
\* what client.create_tweet does: succeeds, or raises.  A TweepyException's
\* text is "<status> <reason>"; a transport failure is no TweepyException.
V2Ok == [cls |-> "ok", msg |-> ""]
V2Errors ==
    { [cls |-> "TweepyException", msg |-> "402 Payment Required"],
      [cls |-> "TweepyException", msg |-> "403 Forbidden"],
      [cls |-> "TweepyException", msg |-> "CreditsDepleted"],
      [cls |-> "TweepyException", msg |-> "Rate limit exceeded"],
      [cls |-> "TweepyException", msg |-> "network unreachable"],
      [cls |-> "ConnectionError", msg |-> "network unreachable"] }
V2Outcomes == {V2Ok} \cup V2Errors

\* line 93, on err = str(e).lower()
IsQuotaError(msg) ==
    LET err == Lower(msg) IN
        \/ Contains(err, "402")
        \/ Contains(err, "creditsdepleted")
        \/ Contains(err, "payment required")
        \/ Contains(err, "403")
        \/ Contains(err, "rate limit")

Toggled(flag) == ~flag

\* lines 95-96: what the except clause assigns to either flag
Downgraded(flag) == FALSE

Truncate_NoReserve(text, reply) ==
    IF Len(text) > TWITTER_CHAR_LIMIT
    THEN IF reply # 0
         THEN Slice(text, TWITTER_CHAR_LIMIT - 20) \o "..."
         ELSE Slice(text, TWITTER_CHAR_LIMIT - 20) \o "~"
    ELSE text

\* lines 77-81.  reply = 0 stands for in_reply_to_tweet_id = None
Truncate(text, reply) ==
    IF Len(text) > TWITTER_CHAR_LIMIT
    THEN IF reply # 0
         THEN Slice(text, TWITTER_CHAR_LIMIT - 60) \o "..."
         ELSE Slice(text, TWITTER_CHAR_LIMIT - 20) \o "~"
    ELSE text

\* lines 83-87.  media = << >> stands for media_ids = None (or an empty list)
KwargsV2(text, media, reply) ==
    [text |-> text,
     media_ids |-> media,
     has_media |-> media # << >>,
     in_reply_to_tweet_id |-> reply,
     has_reply |-> reply # 0]

KwargsV1_DropReply(text, media, reply) ==
    [status |-> text,
     media_ids |-> media,
     has_media |-> media # << >>,
     in_reply_to_status_id |-> 0,
     has_reply |-> FALSE,
     auto_populate_reply_metadata |-> FALSE]

\* lines 101-106
KwargsV1(text, media, reply) ==
    [status |-> text,
     media_ids |-> media,
     has_media |-> media # << >>,
     in_reply_to_status_id |-> reply,
     has_reply |-> reply # 0,
     auto_populate_reply_metadata |-> reply # 0]

Idle == [stage |-> "idle"]

\* one more successful reply to mention id
Bump(r, id) == [r EXCEPT ![id] = Min(@ + 1, MaxReplies)]

\* safe_post_tweet is entered (lines 74-81): the caller's frame
Entered(text, media, reply) ==
    [stage |-> "v2",
     original_text |-> text,
     text |-> Truncate(text, reply),
     media_ids |-> media,
     reply |-> reply,
     v2calls |-> << >>,      \* the kwargs client.create_tweet was given
     v1calls |-> << >>,      \* the kwargs api_v1.update_status was given
     err |-> V2Ok,           \* what client.create_tweet raised
     result |-> "none"]      \* "true", "false", or "raised" (it propagated)

Returned(p) == frame[p].stage = "ret"

\* lines 82-99: the primary call and its except clause
PostV2(p, outcomes) ==
    /\ frame[p].stage = "v2"
    /\ \E out \in outcomes :
         LET f == frame[p]
             kwargs == KwargsV2(f.text, f.media_ids, f.reply)
             g == [f EXCEPT !.v2calls = Append(@, kwargs), !.err = out]
         IN  \/ /\ out.cls = "ok"
                /\ frame' = [frame EXCEPT ![p] = [g EXCEPT !.stage = "ret", !.result = "true"]]
                /\ UNCHANGED <<PAID_TIER, USE_LLM>>
             \/ /\ out.cls = "TweepyException"
                /\ IsQuotaError(out.msg)
                /\ PAID_TIER' = Downgraded(PAID_TIER)
                /\ USE_LLM' = Downgraded(USE_LLM)
                /\ frame' = [frame EXCEPT ![p] = [g EXCEPT !.stage = "v1"]]
             \/ /\ out.cls = "TweepyException"
                /\ ~IsQuotaError(out.msg)
                /\ frame' = [frame EXCEPT ![p] = [g EXCEPT !.stage = "ret", !.result = "false"]]
                /\ UNCHANGED <<PAID_TIER, USE_LLM>>
             \/ /\ out.cls \notin {"ok", "TweepyException"}
                /\ frame' = [frame EXCEPT ![p] = [g EXCEPT !.stage = "ret", !.result = "raised"]]
                /\ UNCHANGED <<PAID_TIER, USE_LLM>>
    /\ UNCHANGED <<envPaid, HUGGING_FACE_TOKEN>>
    /\ replies' = IF p = "respond" /\ frame'[p].result = "true"
                  THEN Bump(replies, frame[p].reply) ELSE replies
    /\ UNCHANGED <<llm, sched, eventVars, jpc, inbox, file, passVars>>

\* lines 100-112: the legacy call, under except Exception
PostV1(p) ==
    /\ frame[p].stage = "v1"
    /\ \E ok \in BOOLEAN :
         LET f == frame[p]
             kwargs_v1 == KwargsV1(f.text, f.media_ids, f.reply)
         IN  frame' = [frame EXCEPT ![p] =
                 [f EXCEPT !.v1calls = Append(@, kwargs_v1),
                           !.stage = "ret",
                           !.result = IF ok THEN "true" ELSE "false"]]
    /\ replies' = IF p = "respond" /\ frame'[p].result = "true"
                  THEN Bump(replies, frame[p].reply) ELSE replies
    /\ UNCHANGED <<llm, sched, eventVars, jpc, tierVars, inbox, file, passVars>>

\* --------------------------------------------------------------- scheduler
\* lines 31-34: the interval bounds in minutes, from the tier flag as it is
\* when the module is loaded
BROADCAST_MIN_INTERVAL(paid) == IF paid THEN 120 ELSE 480
BROADCAST_MAX_INTERVAL(paid) == IF paid THEN 240 ELSE 1440
MENTION_CHECK_MIN_INTERVAL(paid) == IF paid THEN 15 ELSE 60
MENTION_CHECK_MAX_INTERVAL(paid) == IF paid THEN 30 ELSE 120

\* lines 541-542
BROADCAST_INTERVAL(paid) ==
    (BROADCAST_MIN_INTERVAL(paid) + BROADCAST_MAX_INTERVAL(paid)) \div 2
MENTION_CHECK_INTERVAL(paid) ==
    (MENTION_CHECK_MIN_INTERVAL(paid) + MENTION_CHECK_MAX_INTERVAL(paid)) \div 2

\* the jobs whose interval depends on the tier (lines 543-544)
TimedJobs == {"bot_broadcast", "bot_respond"}

NoRun == [has |-> FALSE, at |-> 0, paid |-> FALSE]

\* lines 539-548: the scheduler as started at minute now, the tier flag being
\* paid.  add_job(f, 'interval', minutes=n) stores n with the job and sets
\* its first run n minutes after the start.
Scheduler(paid, now) ==
    LET minutes == [j \in TimedJobs |->
                      IF j = "bot_broadcast" THEN BROADCAST_INTERVAL(paid)
                      ELSE MENTION_CHECK_INTERVAL(paid)]
    IN  [now |-> now,
         minutes |-> minutes,
         next_run_time |-> [j \in TimedJobs |-> now + minutes[j]],
         \* history: the last firing of each job and the tier flag then,
         \* and the firing before it
         run |-> [j \in TimedJobs |-> NoRun],
         prev |-> [j \in TimedJobs |-> NoRun]]

\* the interval trigger: job j is due, and no job is due before it
Due(j) ==
    /\ sched.next_run_time[j] <= MaxMinutes
    /\ \A k \in TimedJobs : sched.next_run_time[j] <= sched.next_run_time[k]

\* the scheduler reaches the run time of job j: the next run time moves on by
\* the minutes stored with the job
Fired(j) ==
    LET at == sched.next_run_time[j] IN
    [sched EXCEPT !.now = at,
                  !.next_run_time[j] = at + sched.minutes[j],
                  !.run[j] = [has |-> TRUE, at |-> at, paid |-> PAID_TIER],
                  !.prev[j] = sched.run[j]]

\* ------------------------------------------------------ mention processing
Digit(d) == SubSeq("0123456789", d + 1, d + 1)

\* Python's str(n), n >= 0
RECURSIVE Str(_)
Str(n) == IF n < 10 THEN Digit(n) ELSE Str(n \div 10) \o Digit(n % 10)

StrAll(ids) == {Str(i) : i \in ids}

\* Python's str.replace(sub, "")
RECURSIVE Remove(_, _)
Remove(s, sub) ==
    IF Len(s) < Len(sub) \/ Len(sub) = 0 THEN s
    ELSE IF SubSeq(s, 1, Len(sub)) = sub
         THEN Remove(SubSeq(s, Len(sub) + 1, Len(s)), sub)
         ELSE SubSeq(s, 1, 1) \o Remove(SubSeq(s, 2, Len(s)), sub)

\* Python's str.strip(), for blanks
RECURSIVE Strip(_)
Strip(s) ==
    IF Len(s) = 0 THEN s
    ELSE IF SubSeq(s, 1, 1) = " " THEN Strip(SubSeq(s, 2, Len(s)))
    ELSE IF SubSeq(s, Len(s), Len(s)) = " " THEN Strip(SubSeq(s, 1, Len(s) - 1))
    ELSE s

\* any(w in ml for w in words)
AnyIn(ml, words) == \E w \in words : Contains(ml, w)

ME == "9dttt_bot"           \* me.data.username
UN == "ada"                 \* ud.data.username of every author

MentionText(i) ==
    CASE i = 1 -> "@9dttt_bot how do i get started"
      [] i = 2 -> "@9dttt_bot play me"
      [] i = 3 -> "@9dttt_bot i won"
      [] OTHER -> "@9dttt_bot gm"

\* the i-th mention the account is sent
Mention(i) == [id |-> 100 + i, author_id |-> 200 + i, text |-> MentionText(i)]

MentionIds == {100 + i : i \in 1..NMentions}

\* the lines random.choice draws, one or two of each list
CompetitiveTones == {"Prepare for defeat."}
FriendlyTones == {"Great game! Keep it up!"}
PersonalityLines == {"Challenge accepted."}
MotivationalLines == {"Think bigger. Think 9D."}
StrategyTips == {"Pattern recognition is your greatest weapon."}
GameFacts == {"Tic-tac-toe evolved. Your move."}

\* lines 389-440: the templates generate_contextual_response chooses from
ContextualOpts(username, message) ==
    LET ml == Lower(message)
        at == "@" \o username \o " "
    IN  IF AnyIn(ml, {"help", "how", "what is", "explain"}) THEN
            { at \o "Need help mastering 9D? Start here: " \o GAME_LINK \o " *",
              at \o "Questions about 9D TTT? All answers at " \o GAME_LINK,
              at \o "Strategy guides await you at " \o GAME_LINK \o " - think 9D!" }
        ELSE IF AnyIn(ml, {"play", "game", "start", "join"}) THEN
            { at \o "Ready to think in 9D? Let's go: " \o GAME_LINK \o " *",
              at \o "Game on! Challenge awaits at " \o GAME_LINK,
              at \o "Enter the grid. Prove your strategy: " \o GAME_LINK }
        ELSE IF AnyIn(ml, {"win", "strategy", "tips", "how to"}) THEN
            { at \o t \o " Play at " \o GAME_LINK : t \in StrategyTips }
            \cup { at \o "Master the dimensions. " \o t \o " " \o GAME_LINK : t \in StrategyTips }
            \cup { at \o "Think ahead. Think 9D. " \o GAME_LINK \o " *" }
        ELSE IF AnyIn(ml, {"hard", "difficult", "complex"}) THEN
            { at \o "Too hard? That means you're getting smarter! " \o GAME_LINK \o " *",
              at \o "Complexity = fun! Keep practicing at " \o GAME_LINK,
              at \o "The best challenges make the best players. " \o GAME_LINK }
        ELSE IF AnyIn(ml, {"dimension", "9d", "dimensional"}) THEN
            { at \o "9 dimensions. Infinite strategy. Experience it: " \o GAME_LINK,
              at \o "Dimensional mastery awaits. " \o GAME_LINK \o " *",
              at \o "Think beyond 3D. Think 9D: " \o GAME_LINK }
        ELSE IF AnyIn(ml, {"gm", "good morning", "morning"}) THEN
            { at \o "GM! Time to think in 9D! " \o GAME_LINK \o " ***",
              at \o "Good morning, strategist! Grids are waiting: " \o GAME_LINK,
              at \o "Morning! Your brain is fresh. Perfect for 9D: " \o GAME_LINK }
        ELSE IF AnyIn(ml, {"gn", "good night", "night"}) THEN
            { at \o "GN! Dream in 9 dimensions! " \o GAME_LINK \o " **",
              at \o "Good night! Tomorrow: more 9D strategy at " \o GAME_LINK,
              at \o "Rest well, champion. The grid awaits: " \o GAME_LINK }
        ELSE
            { at \o m \o " " \o GAME_LINK : m \in MotivationalLines }
            \cup { at \o l \o " " \o GAME_LINK : l \in PersonalityLines }
            \cup { at \o "Ready for the ultimate strategy challenge? " \o GAME_LINK }
            \cup { at \o g \o " " \o GAME_LINK : g \in GameFacts }
            \cup { at \o c \o " " \o GAME_LINK : c \in CompetitiveTones }

\* lines 449-453: the template reply generate_contextual_response returns
TemplateReplies(username, message) ==
    { IF Len(resp) > TWITTER_CHAR_LIMIT
      THEN "@" \o username \o " "
           \o Slice(l, TWITTER_CHAR_LIMIT - Len("@" \o username \o " \n\n" \o GAME_LINK))
           \o "\n\n" \o GAME_LINK
      ELSE resp
      : resp \in ContextualOpts(username, message), l \in PersonalityLines }

\* line 469
Umsg(m) == Strip(Remove(m.text, "@" \o ME))

\* lines 473, 478: which reply bot_respond builds
IsChallenge(ml) == AnyIn(ml, {"challenge", "play me", "vs", "battle", "1v1", "game me"})
IsVictory(ml) == AnyIn(ml, {"won", "i won", "beat", "victory"})

\* lines 474-476
ChallengeReplies(un) ==
    { "@" \o un \o " Challenge accepted! Head to " \o GAME_LINK
        \o " and start a game - tag me when you win (or lose *). Let's see your 9D skills!"
        \o "\n\n" \o personality : personality \in CompetitiveTones }

\* lines 479-481
VictoryReplies(un) ==
    { "@" \o un \o " You beat the grid? Respect! Post a screenshot or tell me the dimensions you conquered * "
        \o GAME_LINK \o "\n\n" \o personality : personality \in FriendlyTones }

\* the state of the file: absent, a JSON list of strings, or cut short by a
\* write that failed part-way
Missing == [state |-> "missing", ids |-> {}]
Stored(ids) == [state |-> "ok", ids |-> ids]
Corrupt == [state |-> "corrupt", ids |-> {}]

Cur == batch[idx]

\* what a call of the account, timeline, user, like or file API can end in:
\* every outcome, or (faults = FALSE) only the ones without a failure
Outcomes(all, faults) == IF faults THEN all ELSE all \cap {"ok", "saved"}

\* bot_respond ends: its locals stay readable until the next pass starts
PassEnds(how) ==
    /\ rpc' = "idle"
    /\ rend' = how

\* a new mention of the account is posted by some user
NewMention ==
    /\ Len(inbox) < NMentions
    /\ inbox' = <<Mention(Len(inbox) + 1)>> \o inbox
    /\ UNCHANGED <<llm, sched, eventVars, jpc, tierVars, frame, replies, file, passVars>>

\* line 456, load_json_set (lines 132-136): outside the try
RespondLoad ==
    /\ rpc = "idle"
    /\ \/ /\ file.state = "corrupt"         \* json.load raises
          /\ PassEnds("load_failed")
          /\ processed' = {}
          /\ loaded' = {}
       \/ /\ file.state # "corrupt"
          /\ processed' = file.ids
          /\ loaded' = file.ids
          /\ rpc' = "get_me"
          /\ rend' = "none"
    /\ batch' = << >>
    /\ idx' = 1
    /\ sent' = {}
    /\ okIds' = {}
    /\ failIds' = {}
    /\ liked' = {}
    /\ rerun' = FALSE
    /\ UNCHANGED <<llm, eventVars, jpc, tierVars, frame, replies, inbox, file, lastBatch>>

\* lines 458-459
RespondGetMe(faults) ==
    /\ rpc = "get_me"
    /\ \E out \in Outcomes({"ok", "nodata", "raise"}, faults) :
         \/ out = "ok" /\ rpc' = "get_mentions" /\ UNCHANGED rend
         \/ out = "nodata" /\ PassEnds("returned")
         \/ out = "raise" /\ PassEnds("aborted")
    /\ UNCHANGED <<llm, sched, eventVars, jpc, tierVars, frame, replies, inbox, file, processed, batch, idx,
                   loaded, sent, okIds, failIds, liked, lastBatch, rerun>>

\* lines 460-461
RespondGetMentions(faults) ==
    /\ rpc = "get_mentions"
    /\ \E out \in Outcomes({"ok", "raise"}, faults) :
         \/ /\ out = "ok"
            /\ batch' = inbox
            /\ rerun' = (lastBatch.has /\ lastBatch.batch = inbox)
            /\ lastBatch' = [has |-> TRUE, batch |-> inbox]
            /\ IF inbox = << >> THEN PassEnds("returned")
               ELSE rpc' = "loop" /\ UNCHANGED rend
         \/ /\ out = "raise"
            /\ PassEnds("aborted")
            /\ UNCHANGED <<batch, rerun, lastBatch>>
    /\ UNCHANGED <<llm, sched, eventVars, jpc, tierVars, frame, replies, inbox, file, processed, idx,
                   loaded, sent, okIds, failIds, liked>>

\* history of the generative-text calls: what the call made for the mention
\* in hand returned ("none": no call; "text"; "fallback": None, the service
\* being disabled or having failed), and the requests sent to the service
\* while the tier was baseline (counted up to two)
NoLlm == [last |-> "none", afterFlip |-> 0]

LlmGate_NoTier(roll, message) == roll /\ Len(message) > 10

\* line 443; roll is random.random() > 0.6
LlmGate(roll, message) == USE_LLM /\ roll /\ Len(message) > 10

NeverSeen(tid) == FALSE

\* line 464
Seen(tid) == tid \in processed

\* line 487: safe_post_tweet(full_resp, in_reply_to_tweet_id=m.id) is entered
Reply(full_resp) ==
    /\ frame' = [frame EXCEPT !["respond"] = Entered(full_resp, << >>, Cur.id)]
    /\ sent' = sent \cup {Cur.id}
    /\ rpc' = "posting"

\* lines 462-485 and 443: the loop's head, the author lookup, the choice of
\* the reply, and the gate of the generative text
RespondLoop(faults) ==
    /\ rpc = "loop"
    /\ IF idx > Len(batch)
       THEN /\ rpc' = "save"
            /\ UNCHANGED <<frame, sent, idx, rend>>
       ELSE IF Seen(Str(Cur.id))
       THEN /\ idx' = idx + 1
            /\ UNCHANGED <<frame, sent, rpc, rend>>
       ELSE \E out \in Outcomes({"ok", "nodata", "raise"}, faults) : \* client.get_user
            \/ /\ out = "nodata"
               /\ idx' = idx + 1
               /\ UNCHANGED <<frame, sent, rpc, rend>>
            \/ /\ out = "raise"
               /\ PassEnds("aborted")
               /\ UNCHANGED <<frame, sent, idx>>
            \/ /\ out = "ok"
               /\ UNCHANGED <<idx, rend>>
               /\ LET ml == Lower(Umsg(Cur)) IN
                  IF IsChallenge(ml)
                  THEN \E r \in ChallengeReplies(UN) : Reply(r)
                  ELSE IF IsVictory(ml)
                  THEN \E r \in VictoryReplies(UN) : Reply(r)
                  ELSE \E roll \in BOOLEAN :
                       IF LlmGate(roll, Umsg(Cur))
                       THEN /\ rpc' = "llm_enter"
                            /\ UNCHANGED <<frame, sent>>
                       ELSE \E r \in TemplateReplies(UN, Umsg(Cur)) : Reply(r)
    /\ UNCHANGED <<llm, sched, eventVars, jpc, tierVars, replies, inbox, file, processed, batch,
                   loaded, okIds, failIds, liked, lastBatch, rerun>>

\* lines 265-267: generate_llm_response is entered
RespondLlmEnter ==
    /\ rpc = "llm_enter"
    /\ IF ~USE_LLM \/ ~HUGGING_FACE_TOKEN
       THEN /\ \E r \in TemplateReplies(UN, Umsg(Cur)) : Reply(r)
            /\ llm' = [llm EXCEPT !.last = "fallback"]
       ELSE /\ rpc' = "llm_request"
            /\ UNCHANGED <<frame, sent, llm>>
    /\ UNCHANGED <<sched, eventVars, jpc, tierVars, replies, inbox, file, processed, batch, idx,
                   loaded, okIds, failIds, liked, rend, lastBatch, rerun>>

\* what requests.post to the generative-text service ends in: a text, an
\* answer without one, a cost or rate status (402, 429), another status, or
\* an exception
LlmOutcomes == {"text", "empty", "cost", "status", "raise"}
LlmText == "Think 9D!"

\* lines 268-288, then 446-453
RespondLlmRequest ==
    /\ rpc = "llm_request"
    /\ \E out \in LlmOutcomes :
         /\ USE_LLM' = IF out = "cost" THEN FALSE ELSE USE_LLM
         /\ llm' = [last |-> IF out = "text" THEN "text" ELSE "fallback",
                    afterFlip |-> IF PAID_TIER THEN llm.afterFlip
                                  ELSE Min(llm.afterFlip + 1, 2)]
         /\ IF out = "text"
            THEN Reply("@" \o UN \o " " \o Slice(LlmText, 200))
            ELSE \E r \in TemplateReplies(UN, Umsg(Cur)) : Reply(r)
    /\ UNCHANGED <<sched, eventVars, jpc, PAID_TIER, envPaid, HUGGING_FACE_TOKEN, replies, inbox, file,
                   processed, batch, idx, loaded, okIds, failIds, liked, rend,
                   lastBatch, rerun>>

\* line 487: safe_post_tweet has returned, or raised into line 494
RespondAfterPost ==
    /\ rpc = "posting"
    /\ Returned("respond")
    /\ LET res == frame["respond"].result IN
         \/ /\ res = "true"
            /\ okIds' = okIds \cup {Cur.id}
            /\ rpc' = "like"
            /\ UNCHANGED <<failIds, idx, rend>>
         \/ /\ res = "false"
            /\ failIds' = failIds \cup {Cur.id}
            /\ idx' = idx + 1
            /\ rpc' = "loop"
            /\ UNCHANGED <<okIds, rend>>
         \/ /\ res = "raised"
            /\ PassEnds("aborted")
            /\ UNCHANGED <<okIds, failIds, idx>>
    /\ frame' = [frame EXCEPT !["respond"] = Idle]
    /\ llm' = [llm EXCEPT !.last = "none"]
    /\ UNCHANGED <<sched, eventVars, jpc, tierVars, replies, inbox, file, processed, batch,
                   loaded, sent, liked, lastBatch, rerun>>

\* lines 488-490
RespondLike(faults) ==
    /\ rpc = "like"
    /\ \E out \in Outcomes({"ok", "raise"}, faults) :     \* client.like
         \/ /\ out = "ok"
            /\ liked' = liked \cup {Cur.id}
            /\ processed' = processed \cup {Str(Cur.id)}
            /\ idx' = idx + 1
            /\ rpc' = "loop"
            /\ UNCHANGED rend
         \/ /\ out = "raise"
            /\ PassEnds("aborted")
            /\ UNCHANGED <<liked, processed, idx>>
    /\ UNCHANGED <<llm, sched, eventVars, jpc, tierVars, frame, replies, inbox, file, batch,
                   loaded, sent, okIds, failIds, lastBatch, rerun>>

\* line 493, save_json_set (lines 138-143): open(fn, 'w') fails and the file
\* stays, or the write fails after open has emptied the file
RespondSave(faults) ==
    /\ rpc = "save"
    /\ \E out \in Outcomes({"saved", "open_failed", "write_failed"}, faults) :
         /\ file' = CASE out = "saved" -> Stored(processed)
                      [] out = "open_failed" -> file
                      [] OTHER -> Corrupt
         /\ PassEnds(IF out = "saved" THEN "saved" ELSE "save_failed")
    /\ UNCHANGED <<llm, sched, eventVars, jpc, tierVars, frame, replies, inbox, processed, batch, idx,
                   loaded, sent, okIds, failIds, liked, lastBatch, rerun>>

\* the process is stopped between two passes and started again: lines 27-28
\* read the environment anew and the file stays (the locals of the last pass
\* are replaced when the next pass starts, line 456)
Restart ==
    /\ rpc = "idle"
    /\ rend # "none"
    /\ PAID_TIER' = envPaid
    /\ USE_LLM' = envPaid
    /\ rend' = "none"
    /\ sched' = Scheduler(envPaid, sched.now)
    /\ llm' = NoLlm
    /\ UNCHANGED <<envPaid, HUGGING_FACE_TOKEN, frame, replies, inbox, file, rpc,
                   processed, batch, idx, loaded, sent, okIds, failIds, liked,
                   lastBatch, rerun, eventVars, jpc>>

\* ------------------------------------------------------------ event bridge
\* JSON values: a string, or null
JStr(x) == [t |-> "str", s |-> x]
JNull == [t |-> "null", s |-> ""]

\* request bodies: no JSON at all, or a JSON value: an object, an array of n
\* elements, or null
NoJson == [kind |-> "invalid", n |-> 0, f |-> << >>]
JsonNull == [kind |-> "null", n |-> 0, f |-> << >>]
JsonArray(n) == [kind |-> "array", n |-> n, f |-> << >>]
JsonObject(f) == [kind |-> "object", n |-> 0, f |-> f]

\* Python's truth value of request.json (line 121)
BodyTruthy(b) ==
    CASE b.kind = "object" -> DOMAIN b.f # {}
      [] b.kind = "array" -> b.n > 0
      [] OTHER -> FALSE

\* event.get(key, default)
Get(f, key, default) == IF key \in DOMAIN f THEN f[key] ELSE default

\* how an f-string renders a value
Fmt(v) == IF v.t = "str" THEN v.s ELSE "None"

\* Python's truth value of a field
Truthy(v) == v.t = "str" /\ v.s # ""

EventTypes == {"win", "game_start", "achievement", "tournament", "leaderboard"}

\* lines 294-326: the text game_event_bridge hands to post_update; "raise"
\* when building it raises, "none" when the type is not one it knows
BridgeText(event) ==
    LET etype == Get(event, "type", JNull)
        player == Get(event, "player", JStr("Mystery Strategist"))
        opponent == Get(event, "opponent", JStr("the void"))
        dims == Get(event, "dimensions", JStr("the multiverse"))
        score == Get(event, "score", JStr(""))
    IN  IF etype = JStr("win") THEN
            IF player.t # "str"                 \* player.replace, line 305
            THEN [kind |-> "raise", text |-> ""]
            ELSE [kind |-> "post",
                  text |-> (IF Truthy(score)
                            THEN "BOOM! " \o Fmt(player) \o " crushed " \o Fmt(opponent)
                                 \o " " \o Fmt(score) \o " - dimensional domination! *"
                            ELSE "VICTORY in " \o Fmt(dims) \o "! " \o Fmt(player)
                                 \o " claims supremacy over " \o Fmt(opponent) \o ". Legendary.")
                           \o "\nCongrats @" \o StripSpaces(player.s) \o "!"]
        ELSE IF etype = JStr("game_start") THEN
            [kind |-> "post",
             text |-> "New 9D battle: " \o Fmt(player) \o " vs " \o Fmt(opponent)
                      \o ". Who claims the grid? Place your bets *"]
        ELSE IF etype = JStr("achievement") THEN
            [kind |-> "post",
             text |-> "* " \o Fmt(player) \o " unlocked: "
                      \o Fmt(Get(event, "achievement", JStr("Unknown Achievement")))
                      \o "! Absolute legend status."]
        ELSE IF etype = JStr("tournament") THEN
            [kind |-> "post",
             text |-> "TOURNAMENT: " \o Fmt(Get(event, "name", JStr("Dimensional Tournament")))
                      \o " - " \o Fmt(Get(event, "participants", JStr("?")))
                      \o " players competing!"]
        ELSE IF etype = JStr("leaderboard") THEN
            [kind |-> "post",
             text |-> "LEADERBOARD UPDATE: " \o Fmt(Get(event, "top", JStr("Champion")))
                      \o " holds " \o Fmt(Get(event, "rank", JStr("#1"))) \o "!"]
        ELSE [kind |-> "none", text |-> ""]

\* lines 331-335: the text post_update hands to safe_post_tweet
UpdateText(text, tag) ==
    LET full == "* " \o BOT_NAME \o " UPDATE *\n\n" \o text \o "\n\n" \o tag
                \o "\n\n" \o GAME_LINK
        max_t == TWITTER_CHAR_LIMIT - Len("* \n\n" \o GAME_LINK)
    IN  IF Len(full) > TWITTER_CHAR_LIMIT
        THEN "* " \o Slice(text, max_t) \o "\n\n" \o GAME_LINK
        ELSE full

Ack == [status |-> 200, body |-> "ok"]
JsonRequired == [status |-> 400, body |-> "JSON required"]
BadRequest == [status |-> 400, body |-> "Bad Request"]
ServerError == [status |-> 500, body |-> "Internal Server Error"]
NoResponse == [status |-> 0, body |-> ""]

\* lines 119-124 with game_event_bridge (293-328) and post_update up to its
\* call of safe_post_tweet (330-336): a request arrives
EventRequest(bodies) ==
    /\ epc = "idle"
    /\ \E b \in bodies :
         /\ ebody' = b
         /\ IF b.kind = "invalid"            \* request.json raises BadRequest
            THEN /\ eresp' = BadRequest
                 /\ eposts' = << >>
                 /\ UNCHANGED <<epc, frame>>
            ELSE IF ~BodyTruthy(b)
            THEN /\ eresp' = JsonRequired
                 /\ eposts' = << >>
                 /\ UNCHANGED <<epc, frame>>
            ELSE IF b.kind # "object"        \* event.get raises, line 294
            THEN /\ eresp' = ServerError
                 /\ eposts' = << >>
                 /\ UNCHANGED <<epc, frame>>
            ELSE LET bt == BridgeText(b.f) IN
                 CASE bt.kind = "raise" ->
                        /\ eresp' = ServerError
                        /\ eposts' = << >>
                        /\ UNCHANGED <<epc, frame>>
                   [] bt.kind = "none" ->
                        /\ eresp' = Ack
                        /\ eposts' = << >>
                        /\ UNCHANGED <<epc, frame>>
                   [] OTHER ->
                        \E tag \in PersonalityLines :
                          LET full == UpdateText(bt.text, tag) IN
                            /\ frame' = [frame EXCEPT !["event"] = Entered(full, << >>, 0)]
                            /\ eposts' = <<full>>
                            /\ eresp' = NoResponse
                            /\ epc' = "posting"
    /\ UNCHANGED <<llm, sched, tierVars, replies, mentionVars, jpc>>

\* lines 336-339 and 124: safe_post_tweet has returned, or raised
EventAfterPost ==
    /\ epc = "posting"
    /\ Returned("event")
    /\ eresp' = IF frame["event"].result = "raised" THEN ServerError ELSE Ack
    /\ frame' = [frame EXCEPT !["event"] = Idle]
    /\ epc' = "idle"
    /\ UNCHANGED <<llm, sched, tierVars, replies, mentionVars, jpc, ebody, eposts>>

\* ------------------------------------------------------------ posting jobs
HypePhrases == {"Leaderboard shaking! New challengers rising fast."}
GameEvents == {"Tournament mode activated. Multiple grids in play."}
TimePhrases == {"Morning grids are loading. Time to think in 9D."}
PlayerAchievements == {"Grid Dominator: Swept all 9 dimensions."}

\* line 519
HypeTexts ==
    { "** 9DTTT LIVE UPDATE **\n\n" \o ph \o "\n\n" \o l \o "\n\n" \o GAME_LINK
      : ph \in HypePhrases, l \in PersonalityLines }

\* lines 530-531: the status line reads the tier when the job runs
DiagnosticTexts(paid) ==
    { Slice("* 9DTTT DIAGNOSTIC *\n\nSystem Status: "
            \o (IF paid THEN "ONLINE (Paid Mode)" ELSE "ONLINE (Lite/Free Mode)")
            \o "\nGrid Status: ACTIVE\nDimensions: ALL 9 OPERATIONAL\n\n" \o m
            \o "\n\n** " \o GAME_LINK, TWITTER_CHAR_LIMIT)
      : m \in MotivationalLines }

\* lines 357-379
BroadcastTexts ==
    LET msgs ==
          { "* 9DTTT STATUS *\n\n* " \o t \o "\n\n* " \o e \o "\n\n" \o m \o "\n\n** " \o GAME_LINK
            : t \in TimePhrases, e \in GameEvents, m \in MotivationalLines }
          \cup { "* STRATEGY TIP *\n\n" \o tip \o "\n\n" \o l \o "\n\nMaster the grid: " \o GAME_LINK
                 : tip \in StrategyTips, l \in PersonalityLines }
          \cup { "* DID YOU KNOW? *\n\n" \o f \o "\n\n" \o m \o "\n\n** " \o GAME_LINK
                 : f \in GameFacts, m \in MotivationalLines }
          \cup { "* ACHIEVEMENT SPOTLIGHT *\n\n" \o a
                 \o "\n\nCan you earn this? Challenge yourself!\n\n* " \o GAME_LINK
                 : a \in PlayerAchievements }
          \cup { "* DAILY CHALLENGE *\n\n" \o m \o "\n\n" \o e \o "\n\nPlay now: " \o GAME_LINK
                 : m \in MotivationalLines, e \in GameEvents }
          \cup { "* GAME ALERT *\n\n" \o e \o "\n\n" \o l \o "\n\nJoin the action: " \o GAME_LINK
                 : e \in GameEvents, l \in PersonalityLines }
        max_t == TWITTER_CHAR_LIMIT - Len("* \n\n" \o GAME_LINK)
    IN  { IF Len(msg) > TWITTER_CHAR_LIMIT
          THEN "* " \o Slice(e, max_t) \o "\n\n" \o GAME_LINK
          ELSE msg
          : msg \in msgs, e \in GameEvents }

\* mids: None, or the one id get_random_media_id uploaded (lines 145-157)
MediaChoices == {<< >>, <<"m1">>}

JobKinds == {"broadcast", "hype", "diagnostic"}

\* bot_broadcast (356-384), bot_hype_commentator (512-524) or bot_diagnostic
\* (529-531) fires and reaches its call of safe_post_tweet
JobStart(kinds) ==
    /\ jpc = "idle"
    /\ \E kind \in kinds :
         \E msg \in (CASE kind = "broadcast" -> BroadcastTexts
                       [] kind = "hype" -> HypeTexts
                       [] OTHER -> DiagnosticTexts(PAID_TIER)),
            mids \in (IF kind = "diagnostic" THEN {<< >>} ELSE MediaChoices) :
           frame' = [frame EXCEPT !["job"] = Entered(msg, mids, 0)]
    /\ jpc' = "posting"
    /\ UNCHANGED <<llm, tierVars, replies, mentionVars, eventVars>>

\* lines 384-387, 524-527, 531-534: the job logs the result and ends
JobAfterPost ==
    /\ jpc = "posting"
    /\ Returned("job")
    /\ frame' = [frame EXCEPT !["job"] = Idle]
    /\ jpc' = "idle"
    /\ UNCHANGED <<llm, sched, tierVars, replies, mentionVars, eventVars>>

\* lines 543 and 356: the interval trigger of bot_broadcast fires, and the
\* job is invoked unless its last instance is still running (the scheduler
\* runs one instance of a job at a time)
FireBroadcast ==
    /\ Due("bot_broadcast")
    /\ sched' = Fired("bot_broadcast")
    /\ IF jpc = "idle"
       THEN JobStart({"broadcast"})
       ELSE UNCHANGED <<tierVars, frame, replies, mentionVars, eventVars, jpc, llm>>

\* lines 544 and 455: the interval trigger of bot_respond fires
FireRespond ==
    /\ Due("bot_respond")
    /\ sched' = Fired("bot_respond")
    /\ IF rpc = "idle"
       THEN RespondLoad
       ELSE UNCHANGED <<tierVars, frame, replies, mentionVars, eventVars, jpc, llm>>

\* ------------------------------------------------------------------ driver
\* any caller of safe_post_tweet(text, media_ids, in_reply_to_tweet_id)
CallerTexts == {"gm"} \cup {Pad(TWITTER_CHAR_LIMIT + k) : k \in 0..MaxOver}

CallerPost ==
    /\ frame["caller"].stage \in {"idle", "ret"}
    /\ \E text \in CallerTexts, media \in MediaChoices, reply \in {0, 101} :
         frame' = [frame EXCEPT !["caller"] = Entered(text, media, reply)]
    /\ UNCHANGED <<llm, sched, tierVars, replies, mentionVars, eventVars, jpc>>

\* ---------------------------------------------------------- specifications
vars == <<PAID_TIER, USE_LLM, envPaid, HUGGING_FACE_TOKEN, frame, replies,
          inbox, file, rpc, processed, batch, idx, loaded, sent, okIds,
          failIds, liked, rend, lastBatch, rerun, epc, ebody, eposts, eresp,
          jpc, sched, llm>>

\* lines 27-28, and every thread at rest
Init ==
    /\ envPaid \in BOOLEAN
    /\ PAID_TIER = envPaid
    /\ USE_LLM = envPaid
    /\ HUGGING_FACE_TOKEN \in BOOLEAN
    /\ frame = [p \in Procs |-> Idle]
    /\ replies = [id \in MentionIds |-> 0]
    /\ inbox = << >>
    /\ file = Missing
    /\ rpc = "idle"
    /\ processed = {}
    /\ batch = << >>
    /\ idx = 1
    /\ loaded = {}
    /\ sent = {}
    /\ okIds = {}
    /\ failIds = {}
    /\ liked = {}
    /\ rend = "none"
    /\ lastBatch = [has |-> FALSE, batch |-> << >>]
    /\ rerun = FALSE
    /\ epc = "idle"
    /\ ebody = NoJson
    /\ eposts = << >>
    /\ eresp = NoResponse
    /\ jpc = "idle"
    /\ sched = Scheduler(PAID_TIER, 0)
    /\ llm = NoLlm

\* the posting client alone, on every input
NextPost ==
    \/ CallerPost
    \/ PostV2("caller", V2Outcomes)
    \/ PostV1("caller")

SpecPost == Init /\ [][NextPost]_vars

\* what the primary call ends in while a reply is posted
ReplyOutcomes ==
    { V2Ok,
      [cls |-> "TweepyException", msg |-> "402 Payment Required"],
      [cls |-> "TweepyException", msg |-> "network unreachable"],
      [cls |-> "ConnectionError", msg |-> "network unreachable"] }

\* the mention job alone: passes one after another, restarts between or
\* within them
NextMentions ==
    \/ NewMention
    \/ RespondLoad /\ UNCHANGED sched
    \/ RespondGetMe(TRUE)
    \/ RespondGetMentions(TRUE)
    \/ RespondLoop(TRUE)
    \/ RespondLlmEnter
    \/ RespondLlmRequest
    \/ PostV2("respond", ReplyOutcomes)
    \/ PostV1("respond")
    \/ RespondAfterPost
    \/ RespondLike(TRUE)
    \/ RespondSave(TRUE)
    \/ Restart

SpecMentions == Init /\ [][NextMentions]_vars

\* an object from its <<key, value>> pairs
Obj(pairs) == [k \in {p[1] : p \in pairs} |-> (CHOOSE p \in pairs : p[1] = k)[2]]

Absent == [t |-> "absent", s |-> ""]
Pairs(type, player, opponent, score, achievement) ==
    { pr \in { <<"type", type>>, <<"player", player>>, <<"opponent", opponent>>,
               <<"score", score>>, <<"achievement", achievement>> } : pr[2] # Absent }

\* the events a game server sends, well-formed or not
EventObjects ==
    { Obj(Pairs(type, player, opponent, score, Absent)) :
        type \in {Absent, JStr("draw")} \cup {JStr(t) : t \in EventTypes},
        player \in {Absent, JStr("Ada Lovelace"), JNull},
        opponent \in {Absent, JStr("Grace")},
        score \in {Absent, JStr("9-0")} }
    \cup { Obj(Pairs(JStr("achievement"), JStr("Ada Lovelace"), Absent, Absent,
                     JStr(Pad(TWITTER_CHAR_LIMIT)))) }

AllBodies ==
    {JsonObject(e) : e \in EventObjects}
    \cup {NoJson, JsonNull, JsonArray(0), JsonArray(1)}

\* the event endpoint alone, on every body
NextEvent ==
    \/ EventRequest(AllBodies)
    \/ PostV2("event", V2Outcomes)
    \/ PostV1("event")
    \/ EventAfterPost

SpecEvent == Init /\ [][NextEvent]_vars

\* every thread of the process, interleaved: the mention job, a posting job
\* and the event endpoint.  The posting calls and the generative-text call
\* fail in every way here; the lookups, the like and the file do not (their
\* failures are SpecMentions').
SomeBodies ==
    { JsonObject(Obj(Pairs(JStr("win"), JStr("Ada Lovelace"), JStr("Grace"),
                           JStr("9-0"), Absent))) }
SomeOutcomes ==
    { V2Ok,
      [cls |-> "TweepyException", msg |-> "402 Payment Required"],
      [cls |-> "TweepyException", msg |-> "network unreachable"] }
\* the primary call of a job or of the event bridge: it succeeds, or it is
\* the one that meets the quota error
FlipOutcomes ==
    { V2Ok, [cls |-> "TweepyException", msg |-> "402 Payment Required"] }

Next ==
    \/ NewMention
    \/ RespondLoad /\ UNCHANGED sched
    \/ RespondGetMe(FALSE)
    \/ RespondGetMentions(FALSE)
    \/ RespondLoop(FALSE)
    \/ RespondLlmEnter
    \/ RespondLlmRequest
    \/ RespondAfterPost
    \/ RespondLike(FALSE)
    \/ RespondSave(FALSE)
    \/ JobStart({"diagnostic"}) /\ UNCHANGED sched
    \/ JobAfterPost
    \/ EventRequest(SomeBodies)
    \/ EventAfterPost
    \/ PostV2("respond", SomeOutcomes)
    \/ \E p \in {"job", "event"} : PostV2(p, FlipOutcomes)
    \/ \E p \in {"respond", "job", "event"} : PostV1(p)

\* the start the flags can change from: the paid tier is configured and the
\* generative-text token is set
InitElevated == Init /\ envPaid /\ HUGGING_FACE_TOKEN

Spec == InitElevated /\ [][Next]_vars

\* the mention job and a posting job, interleaved
NextLlm ==
    \/ NewMention
    \/ RespondLoad /\ UNCHANGED sched
    \/ RespondGetMe(FALSE)
    \/ RespondGetMentions(FALSE)
    \/ RespondLoop(FALSE)
    \/ RespondLlmEnter
    \/ RespondLlmRequest
    \/ RespondAfterPost
    \/ RespondLike(FALSE)
    \/ RespondSave(FALSE)
    \/ JobStart({"diagnostic"}) /\ UNCHANGED sched
    \/ JobAfterPost
    \/ PostV2("respond", SomeOutcomes)
    \/ PostV2("job", FlipOutcomes)
    \/ \E p \in {"respond", "job"} : PostV1(p)

SpecLlm == InitElevated /\ [][NextLlm]_vars

\* the posting jobs alone, every kind of them
NextJobs ==
    \/ JobStart(JobKinds) /\ UNCHANGED sched
    \/ PostV2("job", V2Outcomes)
    \/ PostV1("job")
    \/ JobAfterPost

SpecJobs == Init /\ [][NextJobs]_vars

\* the two interval jobs under the scheduler's clock: the broadcast posts, and
\* the mention check meets an empty timeline
NextSchedule ==
    \/ FireBroadcast
    \/ FireRespond
    \/ PostV2("job", SomeOutcomes)
    \/ PostV1("job")
    \/ JobAfterPost
    \/ RespondGetMe(FALSE)
    \/ RespondGetMentions(FALSE)

SpecSchedule == Init /\ [][NextSchedule]_vars

\* ------------------------------------------------------------------ claims
\* the error texts the claims call quota, billing or rate-limit errors
QuotaMessages ==
    {"402 Payment Required", "403 Forbidden", "CreditsDepleted", "Rate limit exceeded"}

\* the legacy call carries what the primary call carried
SameContent(kw, kw1) ==
    /\ kw1.status = kw.text
    /\ kw1.has_media = kw.has_media
    /\ kw1.media_ids = kw.media_ids
    /\ kw1.has_reply = kw.has_reply
    /\ kw1.in_reply_to_status_id = kw.in_reply_to_tweet_id

\* C1: when safe_post_tweet returns after its primary call failed with a
\* quota, billing or rate-limit error, the tier is baseline and exactly one
\* legacy call was made, with the text, the media and the reply-to reference
\* of the failed primary call.
C1_QuotaFallsBack ==
    \A p \in Procs :
        (Returned(p) /\ frame[p].err.msg \in QuotaMessages)
        => /\ PAID_TIER = FALSE
           /\ Len(frame[p].v2calls) = 1
           /\ Len(frame[p].v1calls) = 1
           /\ SameContent(frame[p].v2calls[1], frame[p].v1calls[1])

C1_Witness ==
    /\ Returned("caller")
    /\ envPaid
    /\ frame["caller"].err.msg = "402 Payment Required"
    /\ Len(frame["caller"].original_text) > TWITTER_CHAR_LIMIT
    /\ frame["caller"].media_ids # << >>
    /\ frame["caller"].reply # 0
    /\ Len(frame["caller"].v1calls) = 1
    /\ frame["caller"].result = "true"

\* C2: when the primary call fails with an error that is not a quota, billing
\* or rate-limit error, no legacy call is made and safe_post_tweet returns
\* False to its caller.
C2_OtherErrorReturnsFalse ==
    \A p \in Procs :
        (Returned(p) /\ frame[p].err.cls # "ok" /\ frame[p].err.msg \notin QuotaMessages)
        => /\ frame[p].v1calls = << >>
           /\ frame[p].result = "false"

\* the set the file holds (a missing file is the empty set)
PersistedSet == IF file.state = "ok" THEN file.ids ELSE {}

\* bot_respond has ended, by its last line, a return or its except clause,
\* and the file could be written if it tried
PassOver == rpc = "idle" /\ rend \in {"saved", "returned", "aborted"}

\* C3: a pass replies only to mentions whose identifier is not in the stored
\* set S, and when it ends the file holds S and exactly the identifiers whose
\* reply post succeeded.
C3_PassPersistsSuccesses ==
    PassOver
    => /\ StrAll(sent) \cap loaded = {}
       /\ PersistedSet = loaded \cup StrAll(okIds)

\* C4: a mention is marked processed and liked whenever its reply post
\* returned success, and is not marked when it returned failure.
C4_MarkedIffReplied ==
    (rpc \in {"loop", "save"} \/ PassOver)
    => /\ StrAll(okIds) \subseteq processed
       /\ okIds \subseteq liked
       /\ StrAll(failIds) \cap processed = {}

\* C5: when an exception aborts a pass, the identifiers the pass had already
\* marked processed are in the file.
C5_AbortPersistsProgress ==
    (rpc = "idle" /\ rend = "aborted") => processed \subseteq PersistedSet

\* C6: no mention receives more than one successfully posted reply.
C6_AtMostOneReply == \A id \in MentionIds : replies[id] <= 1

\* C7 as stated: a pass that fetches the batch the pass before it fetched
\* sends no post.
C7_RerunSendsNothing == rerun => sent = {}

\* C7 as amended: a pass that fetches the batch the pass before it fetched
\* sends no post for a mention whose identifier is in the set it loaded, so
\* none at all when that set holds every identifier of the batch.
C7_RerunSkipsRecorded ==
    rerun
    => /\ StrAll(sent) \cap loaded = {}
       /\ (StrAll({batch[i].id : i \in 1..Len(batch)}) \subseteq loaded => sent = {})

C7_Witness ==
    /\ rerun
    /\ rpc = "idle"
    /\ rend = "saved"
    /\ Len(batch) = NMentions
    /\ StrAll({batch[i].id : i \in 1..Len(batch)}) \subseteq loaded
    /\ sent = {}

\* the request has been answered
Answered == epc = "idle" /\ eresp # NoResponse

\* C8: an event of a recognised type gives exactly one post, carrying the
\* event's player, opponent and score; an event of any other type gives no
\* post and is acknowledged.
C8_OnePostPerEvent ==
    (Answered /\ ebody.kind = "object" /\ DOMAIN ebody.f # {})
    => LET ev == ebody.f IN
       IF "type" \in DOMAIN ev /\ ev["type"].s \in EventTypes
       THEN /\ Len(eposts) = 1
            /\ \A k \in {"player", "opponent", "score"} \cap DOMAIN ev :
                 ev[k].t = "str" => Contains(eposts[1], ev[k].s)
       ELSE /\ eposts = << >>
            /\ eresp = Ack

\* C9: the endpoint answers with a client error, and posts nothing, exactly
\* when the body is missing or not JSON; every JSON body is acknowledged with
\* a success status.
C9_ErrorIffNotJson ==
    Answered
    => IF ebody.kind = "invalid"
       THEN eresp.status \in 400..499 /\ eposts = << >>
       ELSE eresp = Ack

\* C10: the tier flag is written by the posting client alone, on its way from
\* the primary call to the legacy call, and never back to elevated: once
\* baseline, always baseline; the generative-text flag never comes back
\* either.
C10_TierOnlyDown ==
    [][ /\ (~PAID_TIER => ~PAID_TIER')
        /\ (~USE_LLM => ~USE_LLM')
        /\ (PAID_TIER' # PAID_TIER
              => \E p \in Procs : frame[p].stage = "v2" /\ frame'[p].stage = "v1") ]_vars

C10_Witness ==
    /\ envPaid
    /\ ~PAID_TIER
    /\ rpc = "posting"
    /\ jpc = "posting"
    /\ frame["job"].stage = "v2"
    /\ frame["event"].stage = "v1"

\* the minutes between the last two firings of job j
Spacing(j) == sched.run[j].at - sched.prev[j].at

\* C11: once the tier is baseline, a job's next firing comes the baseline
\* interval later: two successive firings of the broadcast, the first of them
\* under the baseline tier, are 960 minutes apart, and two of the mention
\* check 90 minutes.
C11_BaselineCadenceAfterFlip ==
    \A j \in TimedJobs :
        (sched.prev[j].has /\ ~sched.prev[j].paid)
        => Spacing(j) = IF j = "bot_broadcast" THEN BROADCAST_INTERVAL(FALSE)
                        ELSE MENTION_CHECK_INTERVAL(FALSE)

\* the texts the call of caller p has handed to the platform
Submitted(p) ==
    {frame[p].v2calls[i].text : i \in 1..Len(frame[p].v2calls)}
    \cup {frame[p].v1calls[i].status : i \in 1..Len(frame[p].v1calls)}

\* what a text leaves below the platform limit
Headroom(t) == TWITTER_CHAR_LIMIT - Len(t)

\* C12: a text longer than 280 is submitted with at most 280 characters, and
\* as a reply it leaves at least the headroom it would leave as a non-reply;
\* a text of at most 280 characters is submitted unchanged.
C12_TruncationFits ==
    \A p \in Procs :
        frame[p].stage # "idle"
        => \A t \in Submitted(p) :
             IF Len(frame[p].original_text) > TWITTER_CHAR_LIMIT
             THEN /\ Len(t) <= TWITTER_CHAR_LIMIT
                  /\ frame[p].reply # 0
                       => Headroom(t) >= Headroom(Truncate(frame[p].original_text, 0))
             ELSE t = frame[p].original_text

C12_Witness ==
    /\ Returned("caller")
    /\ Len(frame["caller"].original_text) = TWITTER_CHAR_LIMIT + MaxOver
    /\ frame["caller"].reply # 0
    /\ Len(frame["caller"].v2calls) = 1
    /\ Len(frame["caller"].v1calls) = 1
    /\ Headroom(frame["caller"].v1calls[1].status)
         > Headroom(Truncate(frame["caller"].original_text, 0))

C14_StoredSetOnlyGrows ==
    /\ [][PersistedSet \subseteq PersistedSet']_vars
    /\ []((rpc = "idle" /\ rend \in {"returned", "aborted"}) => PersistedSet = loaded)
    /\ []((rpc = "idle" /\ rend \in {"saved", "save_failed"}) => loaded \subseteq PersistedSet)

====
